---------------------------- MODULE Spec2Model ----------------------------
(***************************************************************************)
(* Model of the Vollmacht PDF generator (app.py, modules/*.py).            *)
(*                                                                         *)
(* The core, build_vollmacht_pdf_bytes, is modelled by the block sequence  *)
(* (elems) and the document template (margins) it hands to doc.build; the  *)
(* localization resolver tr and the form application around the core are   *)
(* modelled as they are written in the source.                             *)
(*                                                                         *)
(* Representation:                                                         *)
(*   dict            a function whose DOMAIN is the set of its keys        *)
(*   str             a string; text typed into a widget is a sequence of   *)
(*                   one-character strings until it is stripped            *)
(*   None / value    <<>> / <<value>>                                      *)
(*   float           an exact fraction <<n, d>> in lowest terms, d > 0     *)
(*   bytes (image)   [kind, w, h]: what decoding the bytes gives           *)
(*   engine          reportlab is not part of the source: whether it       *)
(*                   accepts a text and lays out a document is an input    *)
(*                   of the model, the same for the same arguments         *)
(***************************************************************************)
EXTENDS Integers, Sequences, FiniteSets, TLC

VARIABLES
    \* harness of the core and of tr
    pc,                 \* "idle" or "done"
    call,               \* arguments of the last call of the core
    result,             \* what that call returned
    tr_call,            \* arguments of the last call of tr
    tr_result,          \* what that call returned
    \* the form application (one Streamlit session running app.py)
    schema,             \* form_schema.json as loaded at startup
    cfg,                \* setup-config.json as loaded at startup
    lang_choice,        \* the sidebar selectbox
    values,             \* text of the schema's form fields, as typed
    stadt,              \* text of the city input, as typed
    datum,              \* text of the date input, as typed
    sig_mode,           \* the radio: "draw" or "upload"
    canvas,             \* canvas_result.image_data: None or <<image>>
    uploaded,           \* the uploader's file: None or <<[content, consumed]>>
    session_signature,  \* st.session_state["signature_bytes"]
    st_error,           \* the validation error of this run: None or <<labels>>
    built,              \* the builder call of this run: None or <<call>>
    download,           \* the download offered by this run: None or <<pdf>>
    \* a sequence of calls of the core in one process
    call_log,           \* <<[call, session, before, ended, result, after, session_after]>>
    \* history of one session of the form application
    last_set,           \* what the last accept, upload or Clear of the user gave
    \* two calls of the core running concurrently in one interpreter
    heap,               \* the objects allocated so far, by reference
    frames,             \* each call's position, arguments, locals and result
    \* pro_venv.py: the workflow file and the calls that write it
    disk,               \* [wf, bak]: content of the workflow file and of its .bak
    ci,                 \* the last call: its arguments, the files before, its status
    \* the document engine (reportlab), which is not part of the source
    engine              \* [rejects, fails]: the texts its paragraph parser
                        \* rejects and the builds its layout fails on

coreVars == <<pc, call, result, tr_call, tr_result>>

appVars ==
    <<schema, cfg, lang_choice, values, stadt, datum, sig_mode, canvas,
      uploaded, st_error, built, download>>

concVars == <<heap, frames>>

fsVars == <<disk, ci>>

libVars == <<engine>>

otherVars == <<concVars, fsVars, libVars>>

vars == <<coreVars, appVars, session_signature, call_log, last_set, otherVars>>

(***************************************************************************)
(* Bounds of the model.                                                    *)
(***************************************************************************)
\* intrinsic image sizes 1..MaxDim x 1..MaxDim are enumerated
MaxDim == 3

\* a submitted form leaves at most MaxBlank of its ten inputs blank
MaxBlank == 1

\* a process makes at most MaxCalls calls of the core
MaxCalls == 3

(***************************************************************************)
(* dict.get and the arithmetic of floats.                                  *)
(***************************************************************************)
Get(d, k, default) == IF k \in DOMAIN d THEN d[k] ELSE default

RECURSIVE GCD(_, _)
GCD(a, b) == IF b = 0 THEN a ELSE GCD(b, a % b)

Frac(n, d) == LET g == GCD(n, d) IN <<n \div g, d \div g>>

\* float(x) of a number of the configuration
float(x) == Frac(x, 1)

FracMul(p, q) == Frac(p[1] * q[1], p[2] * q[2])

FracLess(p, q) == p[1] * q[2] < q[1] * p[2]

\* Python's min(a, b): b only when b < a
min(a, b) == IF FracLess(b, a) THEN b ELSE a

(***************************************************************************)
(* Localization resolver.                                                  *)
(***************************************************************************)
\* Python's "fallback or key" for fallback: str | None
OrKey(fallback, key) ==
    IF fallback = <<>> \/ fallback[1] = "" THEN key ELSE fallback[1]

\* a resolver that returns whatever fallback was given, the empty one too
tr_keep_empty(key, i18n, fallback) ==
    Get(i18n, key, IF fallback = <<>> THEN key ELSE fallback[1])

\* app.py: def tr(key, i18n, fallback=None)
tr(key, i18n, fallback) == Get(i18n, key, OrKey(fallback, key))

\* modules/i18n.py: def tr(key, i18n, fallback=""): an omitted fallback is ""
tr_i18n(key, i18n, fallback) ==
    Get(i18n, key, OrKey(IF fallback = <<>> THEN <<"">> ELSE fallback, key))

(***************************************************************************)
(* Document blocks (reportlab flowables), by constructor.                  *)
(***************************************************************************)
\* Paragraph(text, style)
Paragraph(text, style) == [type |-> "Paragraph", text |-> text, style |-> style]

\* whether the construction of one of the blocks raised: Paragraph(...) hands
\* its text to the engine's markup parser, and the constructor raises
\* ValueError when the parser rejects the text
constructor_raises(blocks) ==
    \E i \in 1..Len(blocks) :
        /\ blocks[i].type = "Paragraph"
        /\ blocks[i].text \in engine.rejects

Spacer(w, h) == [type |-> "Spacer", width |-> w, height |-> h]

Indenter(left) == [type |-> "Indenter", left |-> left]

KeepTogether(blocks) == [type |-> "KeepTogether", blocks |-> blocks]

RLImage(src, width, height, hAlign) ==
    [type |-> "Image", src |-> src, width |-> width, height |-> height,
     hAlign |-> hAlign]

\* TableStyle([...]) of the builder: the same seven commands in both copies
table_style ==
    << <<"BOX", 1>>, <<"INNERGRID", <<1, 2>> >>, <<"VALIGN", "MIDDLE">>,
       <<"LEFTPADDING", 6>>, <<"RIGHTPADDING", 6>>, <<"TOPPADDING", 6>>,
       <<"BOTTOMPADDING", 6>> >>

\* Table(rows, colWidths=...) followed by setStyle(style)
Table(rows, colWidths, style) ==
    [type |-> "Table", rows |-> rows, colWidths |-> colWidths, style |-> style]

\* a template whose top margin default repeats the side margins' 40
SimpleDocTemplate_top40(pdf_options) ==
    [leftMargin   |-> Get(pdf_options, "leftMargin", 40),
     rightMargin  |-> Get(pdf_options, "rightMargin", 40),
     topMargin    |-> Get(pdf_options, "topMargin", 40),
     bottomMargin |-> Get(pdf_options, "bottomMargin", 36)]

\* SimpleDocTemplate(buf, pagesize=A4, leftMargin=..., ...)
SimpleDocTemplate(pdf_options) ==
    [leftMargin   |-> Get(pdf_options, "leftMargin", 40),
     rightMargin  |-> Get(pdf_options, "rightMargin", 40),
     topMargin    |-> Get(pdf_options, "topMargin", 36),
     bottomMargin |-> Get(pdf_options, "bottomMargin", 36)]


(***************************************************************************)
(* Signature bytes.  PILImage.open(...).convert("RGBA") either raises or   *)
(* gives an image with a size; what it does is a property of the bytes.    *)
(***************************************************************************)
None == <<>>

\* signature_bytes=None, b"", bytes PIL rejects, bytes that decode to w x h
NoSignature == [kind |-> "none", w |-> 0, h |-> 0]

EmptyBytes == [kind |-> "empty", w |-> 0, h |-> 0]

GarbageBytes == [kind |-> "garbage", w |-> 0, h |-> 0]

TruncatedBytes == [kind |-> "truncated", w |-> 0, h |-> 0]

ImageBytes(w, h) == [kind |-> "image", w |-> w, h |-> h]

\* "if signature_bytes:"
Truthy(signature_bytes) == signature_bytes.kind \notin {"none", "empty"}

\* PILImage.open raises on bytes that are no image, convert on a truncated one
DecodeRaises(signature_bytes) == signature_bytes.kind # "image"

(***************************************************************************)
(* The signature block of the builder (the same statements in both         *)
(* copies): sig_block = []; if signature_bytes: try: ... except: pass;     *)
(* sig_block += [rule line, caption].                                       *)
(***************************************************************************)
\* the try body with the clamp to max_h forgotten
signature_image_unclamped(signature_bytes, target_w, max_h) ==
    LET w      == signature_bytes.w
        h      == signature_bytes.h
        aspect == IF w # 0 THEN Frac(h, w) ELSE Frac(1, 1)
    IN  RLImage(signature_bytes, target_w, FracMul(target_w, aspect), "LEFT")

\* the statements of the try body after a successful decode
signature_image(signature_bytes, target_w, max_h) ==
    LET w      == signature_bytes.w
        h      == signature_bytes.h
        aspect == IF w # 0 THEN Frac(h, w) ELSE Frac(1, 1)
        out_w  == target_w
        out_h  == min(max_h, FracMul(out_w, aspect))
    IN  RLImage(signature_bytes, out_w, out_h, "LEFT")

\* a try body that lets the decode error escape: the call ends in the error
sig_try_propagating(signature_bytes, target_w, max_h) ==
    IF DecodeRaises(signature_bytes)
    THEN [raised |-> TRUE, blocks |-> <<>>]
    ELSE [raised |-> FALSE,
          blocks |-> <<signature_image(signature_bytes, target_w, max_h),
                       Spacer(1, -12)>>]

\* a try body without the spacer between image and rule line
sig_try_no_spacer(signature_bytes, target_w, max_h) ==
    IF DecodeRaises(signature_bytes)
    THEN [raised |-> FALSE, blocks |-> <<>>]
    ELSE [raised |-> FALSE,
          blocks |-> <<signature_image(signature_bytes, target_w, max_h)>>]

\* try: ... sig_block += [sig_img, Spacer(1, -12)]  except Exception: pass
sig_try(signature_bytes, target_w, max_h) ==
    IF DecodeRaises(signature_bytes)
    THEN [raised |-> FALSE, blocks |-> <<>>]
    ELSE [raised |-> FALSE,
          blocks |-> <<signature_image(signature_bytes, target_w, max_h),
                       Spacer(1, -12)>>]

\* if signature_bytes:
sig_guard(signature_bytes) == Truthy(signature_bytes)

RuleLine == Paragraph("_________________________", "Normal")

Caption == Paragraph("Unterschrift des Vollmachtgebers", "Normal")

\* rule line and caption appended inside the "if signature_bytes:" body
sig_block_inside_if(signature_bytes, pdf_options) ==
    LET target_w == float(Get(pdf_options, "signature_width_pt", 180))
        max_h    == float(Get(pdf_options, "signature_max_height_pt", 80))
        t        == sig_try(signature_bytes, target_w, max_h)
    IN  IF sig_guard(signature_bytes)
        THEN [raised |-> t.raised, blocks |-> t.blocks \o <<RuleLine, Caption>>]
        ELSE [raised |-> FALSE, blocks |-> <<>>]

\* [raised, blocks]: whether an exception left the statements, and sig_block
sig_block(signature_bytes, pdf_options) ==
    LET target_w == float(Get(pdf_options, "signature_width_pt", 180))
        max_h    == float(Get(pdf_options, "signature_max_height_pt", 80))
        t        == IF sig_guard(signature_bytes)
                    THEN sig_try(signature_bytes, target_w, max_h)
                    ELSE [raised |-> FALSE, blocks |-> <<>>]
    IN  [raised |-> t.raised,
         blocks |-> t.blocks \o <<RuleLine, Caption>>]

(***************************************************************************)
(* The core.  Both copies return doc.build(elems) read back from buf; the  *)
(* model keeps what decides those bytes: the document template and elems.  *)
(***************************************************************************)
IntroText == "zur Abholung und Beantragung des Aufenthaltstitels/Reiseausweises"

HinweisText == "<b>Hinweis:</b> Der Bevollmächtigte muss sich bei Vorsprache zur Abholung durch Vorlage eines eigenen Personaldokuments ausweisen."

\* a table built with data.get(key): an absent key reads None
person_table_none(data, prefix) ==
    Table(<< <<"Name:",         Get(data, prefix \o "_name", "None")>>,
             <<"Vorname:",      Get(data, prefix \o "_vorname", "None")>>,
             <<"Geburtsdatum:", Get(data, prefix \o "_geb", "None")>>,
             <<"Anschrift:",    Get(data, prefix \o "_addr", "None")>> >>,
          <<100, 350>>, table_style)

\* a table with the rows of name and first name exchanged
person_table_swapped(data, prefix) ==
    Table(<< <<"Name:",         Get(data, prefix \o "_vorname", "")>>,
             <<"Vorname:",      Get(data, prefix \o "_name", "")>>,
             <<"Geburtsdatum:", Get(data, prefix \o "_geb", "")>>,
             <<"Anschrift:",    Get(data, prefix \o "_addr", "")>> >>,
          <<100, 350>>, table_style)

\* Table([[label, data.get(key, "")], ...], colWidths=[100, 350]) of one person
person_table(data, prefix) ==
    Table(<< <<"Name:",         Get(data, prefix \o "_name", "")>>,
             <<"Vorname:",      Get(data, prefix \o "_vorname", "")>>,
             <<"Geburtsdatum:", Get(data, prefix \o "_geb", "")>>,
             <<"Anschrift:",    Get(data, prefix \o "_addr", "")>> >>,
          <<100, 350>>, table_style)

\* f"{data.get('stadt', '')}, den {data.get('datum', '')}"
city_date_line(data) ==
    Paragraph(Get(data, "stadt", "") \o ", den " \o Get(data, "datum", ""),
              "Normal")

\* app.py: title through tr with the fallback "Vollmacht"
title_app(i18n, pdf_options) ==
    Paragraph("<b>"
              \o tr(Get(pdf_options, "title_i18n", "app.title"), i18n,
                    <<"Vollmacht">>)
              \o "</b>", "Title")

\* modules/pdf_builder.py: title through i18n.get(key, "Vollmacht")
title_module(i18n, pdf_options) ==
    Paragraph("<b>"
              \o Get(i18n, Get(pdf_options, "title_i18n", "app.title"),
                     "Vollmacht")
              \o "</b>", "Title")

\* elems up to the signature area; only the purpose paragraph differs
elems_head(title, purpose, data) ==
    << title,
       Paragraph(IntroText, "Normal"),
       Spacer(1, 12),
       Paragraph("Ich:", "Normal"),
       Paragraph("Vollmachtgeber", "Normal"),
       person_table(data, "vg"),
       Spacer(1, 12),
       Paragraph("bevollmächtige", "Normal"),
       Paragraph("Bevollmächtigter/-r", "Normal"),
       person_table(data, "b"),
       Spacer(1, 12),
       Paragraph(purpose, "Normal"),
       Paragraph(HinweisText, "Normal"),
       Spacer(1, 24),
       city_date_line(data),
       Spacer(1, 18) >>

\* elems += [Indenter(left=0), KeepTogether(sig_block), Indenter(left=0)]
elems_tail(sig) == <<Indenter(0), KeepTogether(sig), Indenter(0)>>

\* doc.build(elems): whether the engine fails on this template with these
\* blocks is the engine's verdict
doc_build_raises(doc, elems) == [doc |-> doc, elems |-> elems] \in engine.fails

\* what a call gives: the exception that left it, or the document built
Built(raised, doc, elems) ==
    IF raised
    THEN [raised |-> TRUE, doc |-> None, elems |-> <<>>]
    ELSE [raised |-> FALSE, doc |-> <<doc>>, elems |-> elems]

\* app.py
build_vollmacht_pdf_bytes(data, signature_bytes, i18n, pdf_options) ==
    LET doc   == SimpleDocTemplate(pdf_options)
        sb    == sig_block(signature_bytes, pdf_options)
        elems == elems_head(
                     title_app(i18n, pdf_options),
                     "den Aufenthaltstitel und Reiseausweis zu beantragen/abzuholen, unter Vorlage <u>meines</u> Personaldokuments (Pass/Reiseausweises).",
                     data)
                 \o elems_tail(sb.blocks)
    IN  Built(\/ constructor_raises(elems)
              \/ sb.raised
              \/ constructor_raises(sb.blocks)
              \/ doc_build_raises(doc, elems),
              doc, elems)

\* modules/pdf_builder.py
pdf_builder_build_vollmacht_pdf_bytes(data, signature_bytes, i18n, pdf_options) ==
    LET doc   == SimpleDocTemplate(pdf_options)
        sb    == sig_block(signature_bytes, pdf_options)
        elems == elems_head(
                     title_module(i18n, pdf_options),
                     "den Aufenthaltstitel und Reiseausweis zu beantragen/abzuholen, unter Vorlage <u>meines</u> Personaldokuments.",
                     data)
                 \o elems_tail(sb.blocks)
    IN  Built(\/ constructor_raises(elems)
              \/ sb.raised
              \/ constructor_raises(sb.blocks)
              \/ doc_build_raises(doc, elems),
              doc, elems)

(***************************************************************************)
(* Inputs of the core and of tr.                                           *)
(***************************************************************************)
FormKeys ==
    {"vg_name", "vg_vorname", "vg_geb", "vg_addr",
     "b_name", "b_vorname", "b_geb", "b_addr", "stadt", "datum"}

EmptyDict == [k \in {} |-> ""]

SampleData ==
    [k \in FormKeys |->
        CASE k = "vg_name"    -> "Müller"
          [] k = "vg_vorname" -> "Anna"
          [] k = "vg_geb"     -> "01.01.1990"
          [] k = "vg_addr"    -> "Musterstr. 1, Berlin"
          [] k = "b_name"     -> "Schmidt"
          [] k = "b_vorname"  -> "Jan"
          [] k = "b_geb"      -> "02.02.1985"
          [] k = "b_addr"     -> "Beispielweg 2, Berlin"
          [] k = "stadt"      -> "Berlin"
          [] k = "datum"      -> "15.03.2024"]

\* every set of absent keys
DataAll == {[k \in P |-> SampleData[k]] : P \in SUBSET FormKeys}

DataFew ==
    {SampleData, EmptyDict, [k \in FormKeys |-> ""],
     [k \in {"vg_name", "b_addr", "datum"} |-> SampleData[k]]}

SigAll ==
    {NoSignature, EmptyBytes, GarbageBytes, TruncatedBytes,
     ImageBytes(400, 120), ImageBytes(120, 400)}
    \cup {ImageBytes(w, h) : w \in 1..MaxDim, h \in 1..MaxDim}

SigFew == {NoSignature, TruncatedBytes, ImageBytes(400, 120)}

\* i18n.de.json, i18n.ar.json, i18n.en.json as loaded at startup
i18n_de ==
    ("app.title" :> "Vollmacht (Aufenthaltstitel)" @@ "field.name" :> "Name"
     @@ "field.geb" :> "Geburtsdatum")

i18n_ar == EmptyDict

i18n_en ==
    ("app.title" :> "Power of Attorney" @@ "doc.title" :> "Authorization"
     @@ "field.name" :> "Surname" @@ "field.vorname" :> "First name")

\* the table of the language chosen in the sidebar, handed to the builder
i18n_selected ==
    IF lang_choice = "English" THEN i18n_en
    ELSE IF lang_choice = "Arabic" THEN i18n_ar
    ELSE i18n_de

I18N_PDF == i18n_de

\* the second key is the Arabic name of the language in the source
LANGS == ("Deutsch" :> i18n_de @@ "Arabic" :> i18n_ar @@ "English" :> i18n_en)

I18nAll == {i18n_ar, i18n_de, i18n_en}

\* a value other than the default for every recognized option, and a key
\* the builder does not read
OptionValues ==
    ("leftMargin" :> 50 @@ "rightMargin" :> 30 @@ "topMargin" :> 72
     @@ "bottomMargin" :> 20 @@ "signature_width_pt" :> 200
     @@ "signature_max_height_pt" :> 40 @@ "title_i18n" :> "doc.title"
     @@ "page_numbers" :> 1)

RecognizedOptions == DOMAIN OptionValues \ {"page_numbers"}

OptsAll == {[k \in P |-> OptionValues[k]] : P \in SUBSET DOMAIN OptionValues}

Call(variant, data, signature_bytes, i18n, pdf_options) ==
    [variant |-> variant, data |-> data, signature_bytes |-> signature_bytes,
     i18n |-> i18n, pdf_options |-> pdf_options]

Variants == {"app", "module"}

\* every subset of the options that are not margins
OptsSignature ==
    {[k \in P |-> OptionValues[k]] :
        P \in SUBSET {"signature_width_pt", "signature_max_height_pt",
                      "title_i18n", "page_numbers"}}

\* every set of absent keys; every signature with every table and signature
\* option; every set of options
Inputs ==
    {Call(m, d, NoSignature, i18n_de, EmptyDict) : m \in Variants, d \in DataAll}
    \cup
    {Call(m, d, s, t, o) :
        m \in Variants, d \in DataFew, s \in SigAll, t \in I18nAll,
        o \in OptsSignature}
    \cup
    {Call(m, SampleData, s, i18n_de, o) :
        m \in Variants, s \in SigFew, o \in OptsAll}

NoCall == Call("none", EmptyDict, NoSignature, EmptyDict, EmptyDict)

NoResult == [raised |-> FALSE, doc |-> None, elems |-> <<>>]

\* margins far from the defaults
OptsMargins ==
    {EmptyDict, ("topMargin" :> 900),
     ("topMargin" :> 450 @@ "bottomMargin" :> 450)}

\* fields whose city or date holds markup characters
DataMarkup ==
    {[SampleData EXCEPT !["stadt"] = "<b>Berlin"],
     [SampleData EXCEPT !["datum"] = "15.03.24</i>"],
     [SampleData EXCEPT !["stadt"] = "<b>Berlin</b>", !["datum"] = "1 < 2"]}

\* a translation table whose title holds markup characters
i18n_markup == ("app.title" :> "Vollmacht <i>A & B")

SigEngine ==
    {NoSignature, EmptyBytes, GarbageBytes, TruncatedBytes,
     ImageBytes(400, 120)}

\* signatures, tables, fields and margins, with and without markup
\* characters in the texts that come from the form and the table
InputsEngine ==
    {Call(m, d, s, t, o) :
        m \in Variants, d \in {SampleData, EmptyDict} \cup DataMarkup,
        s \in SigEngine, t \in I18nAll \cup {i18n_markup},
        o \in OptsMargins}

\* the paragraph texts of these inputs in which the form or the table put
\* markup characters: whether the parser accepts them is the engine's verdict
MarkupTexts ==
    {city_date_line(d).text : d \in DataMarkup}
    \cup {title_app(i18n_markup, EmptyDict).text}

\* the title and the purpose paragraph of the copy the call goes to
title_of(c) ==
    IF c.variant = "module"
    THEN title_module(c.i18n, c.pdf_options)
    ELSE title_app(c.i18n, c.pdf_options)

purpose_of(c) ==
    IF c.variant = "module"
    THEN "den Aufenthaltstitel und Reiseausweis zu beantragen/abzuholen, unter Vorlage <u>meines</u> Personaldokuments."
    ELSE "den Aufenthaltstitel und Reiseausweis zu beantragen/abzuholen, unter Vorlage <u>meines</u> Personaldokuments (Pass/Reiseausweises)."

\* the blocks before the signature group as the statements of the copy
\* give them
head_of(c) == elems_head(title_of(c), purpose_of(c), c.data)

\* the blocks the call hands to doc.build when no statement raises
elems_of(c) ==
    head_of(c)
    \o elems_tail(sig_block(c.signature_bytes, c.pdf_options).blocks)

\* the arguments of the call's doc.build(elems)
build_of(c) ==
    [doc |-> SimpleDocTemplate(c.pdf_options), elems |-> elems_of(c)]

\* the texts the call's Paragraph constructors are given
paragraph_texts(c) ==
    LET blocks == head_of(c) \o <<RuleLine, Caption>>
    IN  {blocks[i].text :
            i \in {k \in 1..Len(blocks) : blocks[k].type = "Paragraph"}}

\* the engines a call is checked with: each accepts or rejects the call's
\* texts with markup characters and lays out the call's document or fails
Engines(c) ==
    {[rejects |-> R, fails |-> F] :
        R \in SUBSET (MarkupTexts \cap paragraph_texts(c)),
        F \in {{}, {build_of(c)}}}

TrCall(variant, key, i18n, fallback) ==
    [variant |-> variant, key |-> key, i18n |-> i18n, fallback |-> fallback]

TrInputs ==
    {TrCall(m, k, t, f) :
        m \in Variants, k \in {"app.title", "nonexistent.key", ""},
        t \in I18nAll, f \in {None, <<"">>, <<"Default">>}}

NoTrCall == TrCall("none", "", EmptyDict, None)

(***************************************************************************)
(* The form application: text as typed, the schema, validation.            *)
(***************************************************************************)
\* the characters str.strip() removes (those with str.isspace()): tab, line
\* feed, vertical tab, form feed, carriage return, the separators 0x1c to
\* 0x1f, space, next line 0x85, no-break space 0xa0
Latin1Whitespace ==
    {"\t", "\n", "", "\f", "\r", "", "", "", "", " ", "",
     " "}

\* and the spaces and separators beyond Latin-1, each written here by its
\* code point
UnicodeWhitespace ==
    {"U+1680", "U+2000", "U+2001", "U+2002", "U+2003", "U+2004", "U+2005",
     "U+2006", "U+2007", "U+2008", "U+2009", "U+200A", "U+2028", "U+2029",
     "U+202F", "U+205F", "U+3000"}

Whitespace == Latin1Whitespace \cup UnicodeWhitespace

RECURSIVE lstrip(_)
lstrip(s) == IF s # <<>> /\ Head(s) \in Whitespace THEN lstrip(Tail(s)) ELSE s

RECURSIVE rstrip(_)
rstrip(s) ==
    IF s # <<>> /\ s[Len(s)] \in Whitespace
    THEN rstrip(SubSeq(s, 1, Len(s) - 1)) ELSE s

\* str.strip()
strip(s) == rstrip(lstrip(s))

\* the str of a text given character by character
RECURSIVE Str(_)
Str(s) == IF s = <<>> THEN "" ELSE Head(s) \o Str(Tail(s))

\* one entry of a section's "fields" list
Field(key, required) ==
    ("key" :> key @@ "label_i18n" :> ("field." \o key) @@ "required" :> required)

OptionalField(key) == ("key" :> key @@ "label_i18n" :> ("field." \o key))

\* load_json(...) of a missing file: default or {}
SchemaMissing == EmptyDict

SchemaFull ==
    ("sections" :>
        << ("key" :> "vg" @@ "fields" :>
               << Field("name", TRUE), Field("vorname", TRUE),
                  Field("geb", TRUE), Field("addr", TRUE) >>),
           ("key" :> "b" @@ "fields" :>
               << Field("name", TRUE), Field("vorname", TRUE),
                  Field("geb", TRUE), Field("addr", TRUE) >>) >>
     @@ "misc" :> ("stadt_default" :> <<"B", "o", "n", "n">>))

SchemaOptional ==
    ("sections" :>
        << ("key" :> "vg" @@ "fields" :>
               << Field("name", TRUE), Field("vorname", TRUE),
                  Field("geb", FALSE), OptionalField("addr") >>),
           ("key" :> "b" @@ "fields" :>
               << Field("name", TRUE), Field("vorname", TRUE),
                  Field("geb", TRUE), OptionalField("addr") >>) >>)

\* the "for section ... for fld ..." loops: every field with its section
RECURSIVE FieldsFrom(_, _)
FieldsFrom(sections, i) ==
    IF i > Len(sections) THEN <<>>
    ELSE LET fields == Get(sections[i], "fields", <<>>)
         IN  [j \in 1..Len(fields) |->
                 [section |-> sections[i], fld |-> fields[j]]]
             \o FieldsFrom(sections, i + 1)

FieldsOf(sc) == FieldsFrom(Get(sc, "sections", <<>>), 1)

\* f'{section["key"]}_{fld["key"]}'
WidgetKey(e) == e.section["key"] \o "_" \o e.fld["key"]

\* the keys of the values dict the form loop fills
WidgetKeys(sc) ==
    LET fs == FieldsOf(sc) IN {WidgetKey(fs[i]) : i \in 1..Len(fs)}

\* def validate_required(vals, sc, i18n_dict): the labels of the required
\* fields whose text is empty after strip
validate_required(vals, sc, i18n_dict) ==
    LET Missing(e) ==
            /\ Get(e.fld, "required", FALSE)
            /\ strip(Get(vals, WidgetKey(e), <<>>)) = <<>>
        bad == SelectSeq(FieldsOf(sc), Missing)
    IN  [i \in 1..Len(bad) |->
            tr(Get(bad[i].fld, "label_i18n", Get(bad[i].fld, "key", "")),
               i18n_dict, <<Get(bad[i].fld, "key", "")>>)]

\* def v(sec, key), of the values of this run
v(vals, sec, key) == Str(strip(Get(vals, sec \o "_" \o key, <<>>)))

\* form_data = {...} of the submit handling
form_data(vals, city, date) ==
    [k \in FormKeys |->
        CASE k = "vg_name"    -> v(vals, "vg", "name")
          [] k = "vg_vorname" -> v(vals, "vg", "vorname")
          [] k = "vg_geb"     -> v(vals, "vg", "geb")
          [] k = "vg_addr"    -> v(vals, "vg", "addr")
          [] k = "b_name"     -> v(vals, "b", "name")
          [] k = "b_vorname"  -> v(vals, "b", "vorname")
          [] k = "b_geb"      -> v(vals, "b", "geb")
          [] k = "b_addr"     -> v(vals, "b", "addr")
          [] k = "stadt"      -> Str(strip(city))
          [] k = "datum"      -> Str(strip(date))]

\* what a user types into the ten inputs
SampleTyped ==
    [k \in FormKeys |->
        CASE k = "vg_name"    -> <<"M", "ü", "l", "l", "e", "r">>
          [] k = "vg_vorname" -> <<" ", "A", "n", "n", "a">>
          [] k = "vg_geb"     -> <<"1", "9", "9", "0">>
          [] k = "vg_addr"    -> <<"W", "e", "g", " ", "1", " ">>
          [] k = "b_name"     -> <<"S", "c", "h", "m", "i", "d", "t", " ">>
          [] k = "b_vorname"  -> <<"J", "a", "n">>
          [] k = "b_geb"      -> <<"\f", "1", "9", "8", "5", "U+2003">>
          [] k = "b_addr"     -> <<"\t", "H", "o", "f", " ", "2", "\n">>
          [] k = "stadt"      -> <<"B", "e", "r", "l", "i", "n">>
          [] k = "datum"      -> <<"1", "5", ".", "0", "3", ".", "2", "4", "\r">>]

\* what a blank input holds: nothing, or for some inputs only white space
BlankTyped ==
    [k \in FormKeys |->
        CASE k = "vg_name"    -> <<"\r">>
          [] k = "vg_vorname" -> <<" ">>
          [] k = "b_geb"      -> <<" ">>
          [] k = "datum"      -> <<" ", "\t">>
          [] OTHER            -> <<>>]

\* the ten inputs with the set B of them left blank
Fill(B) == [k \in FormKeys |-> IF k \in B THEN BlankTyped[k] ELSE SampleTyped[k]]

\* the inputs a user leaves blank: a required field, a required field with
\* white space only, a field some schemas make optional, one they leave
\* without "required", the city and the date
BlankKeys == {"vg_name", "vg_vorname", "vg_geb", "b_addr", "stadt", "datum"}

Fills ==
    {Fill(B) : B \in {X \in SUBSET BlankKeys : Cardinality(X) <= MaxBlank}}
    \cup {Fill(FormKeys)}

\* the files a user uploads: an image, and a file that is no image
Files == {ImageBytes(2, 1), GarbageBytes}

\* pil_img.save(out, format="PNG") of the 400 x 120 canvas
CanvasPng == ImageBytes(400, 120)

(***************************************************************************)
(* Specification of the core: the arguments are drawn, then the function   *)
(* is applied to them.                                                      *)
(***************************************************************************)
\* the two requests whose calls run concurrently
Callers == {"a", "b"}

\* a call that has not begun: no local is bound yet
Frame(c) ==
    [pc |-> "start", call |-> c, buf |-> 0, doc |-> 0, styles |-> 0,
     table_style |-> 0, elems |-> 0, result |-> NoResult]

ConcIdle ==
    /\ heap = <<>>
    /\ frames = [p \in Callers |-> Frame(NoCall)]

\* no workflow file, no backup, ensure_gh_actions_workflow not called
NoCiCall ==
    [called |-> FALSE, py |-> "", force |-> FALSE, backup |-> FALSE,
     before |-> [wf |-> None, bak |-> None], raised |-> FALSE,
     status |-> "", printed |-> None]

FsIdle ==
    /\ disk = [wf |-> None, bak |-> None]
    /\ ci = NoCiCall

\* an engine that accepts every text and lays out every document
EngineWorks == [rejects |-> {}, fails |-> {}]

OtherIdle == ConcIdle /\ FsIdle /\ engine = EngineWorks

\* the session after the first run of the script, nothing typed or clicked
AppStart(sc, c) ==
    /\ schema = sc
    /\ cfg = c
    /\ lang_choice = "Deutsch"
    /\ values = [k \in WidgetKeys(sc) |-> <<>>]
    /\ stadt = Get(Get(sc, "misc", EmptyDict), "stadt_default",
                   <<"B", "e", "r", "l", "i", "n">>)
    /\ datum = <<>>
    /\ sig_mode = "draw"
    /\ canvas = None
    /\ uploaded = None
    /\ session_signature = NoSignature
    /\ st_error = None
    /\ built = None
    /\ download = None

CoreIdle ==
    /\ pc = "idle"
    /\ call = NoCall
    /\ result = NoResult
    /\ tr_call = NoTrCall
    /\ tr_result = None

Init ==
    /\ pc = "idle"
    /\ result = NoResult
    /\ tr_result = None
    /\ \/ call \in Inputs /\ tr_call = NoTrCall
       \/ call = NoCall /\ tr_call \in TrInputs
    /\ AppStart(SchemaMissing, EmptyDict)
    /\ call_log = <<>>
    /\ last_set = NoSignature
    /\ OtherIdle

BuildApp ==
    /\ pc = "idle"
    /\ call.variant = "app"
    /\ result' = build_vollmacht_pdf_bytes(call.data, call.signature_bytes,
                                           call.i18n, call.pdf_options)
    /\ pc' = "done"
    /\ UNCHANGED <<call, tr_call, tr_result, appVars, session_signature, call_log, last_set,
                 otherVars>>

BuildModule ==
    /\ pc = "idle"
    /\ call.variant = "module"
    /\ result' = pdf_builder_build_vollmacht_pdf_bytes(
                     call.data, call.signature_bytes, call.i18n,
                     call.pdf_options)
    /\ pc' = "done"
    /\ UNCHANGED <<call, tr_call, tr_result, appVars, session_signature, call_log, last_set,
                 otherVars>>

TrApp ==
    /\ pc = "idle"
    /\ tr_call.variant = "app"
    /\ tr_result' = <<tr(tr_call.key, tr_call.i18n, tr_call.fallback)>>
    /\ pc' = "done"
    /\ UNCHANGED <<call, result, tr_call, appVars, session_signature, call_log, last_set,
                 otherVars>>

TrModule ==
    /\ pc = "idle"
    /\ tr_call.variant = "module"
    /\ tr_result' = <<tr_i18n(tr_call.key, tr_call.i18n, tr_call.fallback)>>
    /\ pc' = "done"
    /\ UNCHANGED <<call, result, tr_call, appVars, session_signature, call_log, last_set,
                 otherVars>>

Next == BuildApp \/ BuildModule \/ TrApp \/ TrModule

Spec == Init /\ [][Next]_vars

(***************************************************************************)
(* Specification of the form application.  Every interaction reruns the    *)
(* script from top to bottom (app.py 163-300) with the widgets' values of  *)
(* that moment; a button is True only in the run its click started.  What  *)
(* a run showed (error, download) is gone in the next run.                 *)
(***************************************************************************)
\* the files found at startup: (form_schema.json, setup-config.json)
Startups ==
    {<<SchemaMissing, EmptyDict>>,
     <<SchemaFull, ("pdf_options" :> OptionValues)>>,
     <<SchemaOptional, EmptyDict>>}

\* whether a run can tell a new file object from the one already read
Freshness == IF uploaded # None /\ sig_mode = "upload" THEN BOOLEAN ELSE {TRUE}

\* uploaded.read(): the content on the first read of a file object; on a
\* later run the content again when the uploader hands out a new object
\* (fresh), nothing when it hands out the object already read to its end
ReadUploaded(upl, fresh) ==
    IF upl[1].consumed /\ ~fresh THEN EmptyBytes ELSE upl[1].content

\* the signature section (app.py 204-244): the session signature it leaves
SignatureSection(mode, canv, upl, accept, clear, fresh) ==
    LET set1 == IF mode = "draw"
                THEN IF accept /\ canv # None
                     THEN CanvasPng ELSE session_signature
                ELSE IF upl # None
                     THEN ReadUploaded(upl, fresh) ELSE session_signature
    IN  IF clear THEN NoSignature ELSE set1

\* one run of the script
Run(lang, mode, canv, upl, accept, clear, submitted, vals, city, date, fresh) ==
    LET i18n == LANGS[lang]
        sig  == SignatureSection(mode, canv, upl, accept, clear, fresh)
        errs == validate_required(vals, schema, i18n)
        data == form_data(vals, city, date)
        opts == Get(cfg, "pdf_options", EmptyDict)
    IN  /\ lang_choice' = lang
        /\ sig_mode' = mode
        /\ canvas' = canv
        /\ uploaded' = IF mode = "upload" /\ upl # None
                       THEN <<[content |-> upl[1].content, consumed |-> TRUE]>>
                       ELSE upl
        /\ session_signature' = sig
        /\ values' = vals
        /\ stadt' = city
        /\ datum' = date
        /\ IF submitted /\ errs # <<>>
           THEN /\ st_error' = <<errs>>
                /\ built' = None
                /\ download' = None
           ELSE IF submitted
           THEN /\ st_error' = None
                /\ built' = <<Call("app", data, sig, I18N_PDF, opts)>>
                /\ download' =
                      LET pdf_bytes == build_vollmacht_pdf_bytes(
                                           data, sig, I18N_PDF, opts)
                      IN  IF pdf_bytes.raised THEN None ELSE <<pdf_bytes>>
           ELSE /\ st_error' = None
                /\ built' = None
                /\ download' = None
        /\ UNCHANGED <<schema, cfg, coreVars, call_log, otherVars>>

SelectLanguage(l) ==
    /\ l # lang_choice
    /\ \E fresh \in Freshness :
        Run(l, sig_mode, canvas, uploaded, FALSE, FALSE, FALSE,
            values, stadt, datum, fresh)
    /\ UNCHANGED last_set

\* a rerun of the script with no widget changed: a click on the download
\* button, one more stroke on the canvas, Streamlit's "Rerun"
Rerun ==
    /\ \E fresh \in Freshness :
        Run(lang_choice, sig_mode, canvas, uploaded, FALSE, FALSE, FALSE,
            values, stadt, datum, fresh)
    /\ UNCHANGED last_set

\* the radio; the widget of the mode that is left is not rendered any more
\* and loses its value
SelectMode(m) ==
    /\ m # sig_mode
    /\ Run(lang_choice, m, None, None, FALSE, FALSE, FALSE,
           values, stadt, datum, TRUE)
    /\ UNCHANGED last_set

DrawOnCanvas ==
    /\ sig_mode = "draw"
    /\ canvas = None
    /\ Run(lang_choice, sig_mode, <<"drawn">>, uploaded, FALSE, FALSE, FALSE,
           values, stadt, datum, TRUE)
    /\ UNCHANGED last_set

AcceptDrawn ==
    /\ sig_mode = "draw"
    /\ Run(lang_choice, sig_mode, canvas, uploaded, TRUE, FALSE, FALSE,
           values, stadt, datum, TRUE)
    /\ last_set' = IF canvas # None THEN CanvasPng ELSE last_set

ClickClear ==
    /\ \E fresh \in Freshness :
        Run(lang_choice, sig_mode, canvas, uploaded, FALSE, TRUE, FALSE,
            values, stadt, datum, fresh)
    /\ last_set' = NoSignature

UploadFile(f) ==
    /\ sig_mode = "upload"
    /\ Run(lang_choice, sig_mode, canvas,
           <<[content |-> f, consumed |-> FALSE]>>, FALSE, FALSE, FALSE,
           values, stadt, datum, TRUE)
    /\ last_set' = f

RemoveFile ==
    /\ sig_mode = "upload"
    /\ uploaded # None
    /\ Run(lang_choice, sig_mode, canvas, None, FALSE, FALSE, FALSE,
           values, stadt, datum, TRUE)
    /\ UNCHANGED last_set

\* the form's submit button, with the text of the ten inputs at that moment
Submit(fill) ==
    /\ \E fresh \in Freshness :
        Run(lang_choice, sig_mode, canvas, uploaded, FALSE, FALSE, TRUE,
            [k \in DOMAIN values |-> fill[k]], fill["stadt"], fill["datum"],
            fresh)
    /\ UNCHANGED last_set

InitApp ==
    /\ CoreIdle
    /\ \E st \in Startups : AppStart(st[1], st[2])
    /\ call_log = <<>>
    /\ last_set = NoSignature
    /\ OtherIdle

NextApp ==
    \/ Rerun
    \/ \E l \in DOMAIN LANGS : SelectLanguage(l)
    \/ \E m \in {"draw", "upload"} : SelectMode(m)
    \/ DrawOnCanvas
    \/ AcceptDrawn
    \/ ClickClear
    \/ \E f \in Files : UploadFile(f)
    \/ RemoveFile
    \/ \E fill \in Fills : Submit(fill)

SpecApp == InitApp /\ [][NextApp]_vars

(***************************************************************************)
(* The statements of build_vollmacht_pdf_bytes, one call in one frame.     *)
(* Every object a call creates lies on the heap under a reference; a local *)
(* of a call holds a reference.  A statement that raises ends the call:    *)
(* what the call had put on the heap stays there, and the caller gets the  *)
(* exception and no value.  The engine is asked, not modelled: its verdict *)
(* is a function of the arguments it is given, and no step changes it.     *)
(***************************************************************************)
\* the copy of the core the call went to, applied to other arguments
BuildOf(variant, data, signature_bytes, i18n, pdf_options) ==
    IF variant = "app"
    THEN build_vollmacht_pdf_bytes(data, signature_bytes, i18n, pdf_options)
    ELSE pdf_builder_build_vollmacht_pdf_bytes(data, signature_bytes, i18n,
                                               pdf_options)

\* a frame in which no call runs
IdleFrame == [Frame(NoCall) EXCEPT !.pc = "idle"]

\* a constructor call or a list display: a new object under a new reference
Allocate(h, obj) == [ref |-> Len(h) + 1, heap |-> Append(h, obj)]

\* BytesIO()
BytesIO == [type |-> "BytesIO", content |-> None]

\* getSampleStyleSheet(): a new sheet on every call
getSampleStyleSheet == [type |-> "StyleSheet1", names |-> {"Normal", "Title"}]

\* a block list created once and kept, as a default argument is: every call
\* adds its blocks to it
new_list_kept(h, blocks) ==
    LET lists == {r \in 1..Len(h) : h[r].type = "list"}
    IN  IF lists = {}
        THEN Allocate(h, [type |-> "list", items |-> blocks])
        ELSE LET r == CHOOSE r \in lists : TRUE
             IN  [ref |-> r, heap |-> [h EXCEPT ![r].items = @ \o blocks]]

\* a block list kept in one module-level name that every call rebinds
new_list_shared(h, blocks) ==
    LET lists == {r \in 1..Len(h) : h[r].type = "list"}
    IN  IF lists = {}
        THEN Allocate(h, [type |-> "list", items |-> blocks])
        ELSE LET r == CHOOSE r \in lists : TRUE
             IN  [ref |-> r, heap |-> [h EXCEPT ![r].items = blocks]]

\* elems = [...]
new_list(h, blocks) == Allocate(h, [type |-> "list", items |-> blocks])

\* tbl.setStyle(table_style) with the style object the local names
set_style(block, style) ==
    IF block.type = "Table" THEN [block EXCEPT !.style = style] ELSE block

\* the statements that extend elems after the list display, each with the
\* first and the last position of elems it fills: app.py lines 105, 115, 117,
\* 121, 125, 127, 128; modules/pdf_builder.py lines 51, 54, 58, 62, 63, 64
extend_statements(variant) ==
    IF variant = "module"
    THEN << <<6, 11>>, <<12, 12>>, <<13, 13>>, <<14, 14>>, <<15, 15>>,
            <<16, 16>> >>
    ELSE << <<6, 9>>, <<10, 11>>, <<12, 12>>, <<13, 13>>, <<14, 14>>,
            <<15, 15>>, <<16, 16>> >>

\* the length of elems when these statements are left: an extending
\* statement builds its blocks before it touches the list, so the first
\* statement with a constructor that raises adds nothing, and the
\* statements before it have added theirs
extended_to(variant, head) ==
    LET st      == extend_statements(variant)
        raising == {k \in 1..Len(st) :
                       constructor_raises(SubSeq(head, st[k][1], st[k][2]))}
    IN  IF raising = {} THEN Len(head)
        ELSE st[CHOOSE k \in raising : \A m \in raising : k <= m][1] - 1

\* what a failed doc.build leaves in the buffer is the engine's affair:
\* nothing, or the document up to the block it failed on
partial_output(doc, elems) ==
    {None, <<[doc |-> doc, elems |-> SubSeq(elems, 1, Len(elems) - 1)]>>}

\* the frame of a call that an exception has left
raised_frame(f) ==
    [f EXCEPT !.pc = "raised", !.result = Built(TRUE, None, <<>>)]

\* buf = BytesIO(); doc = SimpleDocTemplate(buf, ...)
NewTemplate(p) ==
    /\ frames[p].pc = "start"
    /\ LET b == Allocate(heap, BytesIO)
           d == Allocate(b.heap,
                         [type     |-> "SimpleDocTemplate",
                          buf      |-> b.ref,
                          template |-> SimpleDocTemplate(frames[p].call.pdf_options)])
       IN  /\ heap' = d.heap
           /\ frames' = [frames EXCEPT ![p].pc = "styles", ![p].buf = b.ref,
                                        ![p].doc = d.ref]
    /\ UNCHANGED <<coreVars, appVars, session_signature, call_log, last_set,
                   fsVars, libVars>>

\* styles = getSampleStyleSheet()
NewStyles(p) ==
    /\ frames[p].pc = "styles"
    /\ LET st == Allocate(heap, getSampleStyleSheet)
       IN  /\ heap' = st.heap
           /\ frames' = [frames EXCEPT ![p].pc = "elems", ![p].styles = st.ref]
    /\ UNCHANGED <<coreVars, appVars, session_signature, call_log, last_set,
                   fsVars, libVars>>

\* elems = [title, intro, Spacer, "Ich:", "Vollmachtgeber"]: a constructor
\* that raises leaves the display before there is a list
NewElems(p) ==
    /\ frames[p].pc = "elems"
    /\ LET blocks == SubSeq(head_of(frames[p].call), 1, 5)
           l      == new_list(heap, blocks)
       IN  IF constructor_raises(blocks)
           THEN /\ heap' = heap
                /\ frames' = [frames EXCEPT ![p] = raised_frame(@)]
           ELSE /\ heap' = l.heap
                /\ frames' = [frames EXCEPT ![p].pc = "table_style",
                                            ![p].elems = l.ref]
    /\ UNCHANGED <<coreVars, appVars, session_signature, call_log, last_set,
                   fsVars, libVars>>

\* table_style = TableStyle([...])
NewTableStyle(p) ==
    /\ frames[p].pc = "table_style"
    /\ LET ts == Allocate(heap, [type |-> "TableStyle", cmds |-> table_style])
       IN  /\ heap' = ts.heap
           /\ frames' = [frames EXCEPT ![p].pc = "tables",
                                        ![p].table_style = ts.ref]
    /\ UNCHANGED <<coreVars, appVars, session_signature, call_log, last_set,
                   fsVars, libVars>>

\* tbl1 ... elems += [tbl1, ...]; tbl2 ... elems += [tbl2, ...];
\* elems.append(...) five times: the list is extended in place, statement
\* by statement, up to the statement that raises
AddTables(p) ==
    /\ frames[p].pc = "tables"
    /\ LET f     == frames[p]
           style == heap[f.table_style].cmds
           head  == head_of(f.call)
           n     == extended_to(f.call.variant, head)
           more  == SubSeq(head, 6, n)
       IN  /\ heap' = [heap EXCEPT ![f.elems].items =
                          @ \o [i \in 1..Len(more) |->
                                   set_style(more[i], style)]]
           /\ frames' = IF n < Len(head)
                        THEN [frames EXCEPT ![p] = raised_frame(@)]
                        ELSE [frames EXCEPT ![p].pc = "signature"]
    /\ UNCHANGED <<coreVars, appVars, session_signature, call_log, last_set,
                   fsVars, libVars>>

\* sig_block = [] ... sig_block += [rule line, caption];
\* elems += [Indenter, KeepTogether(sig_block), Indenter]
AddSignature(p) ==
    /\ frames[p].pc = "signature"
    /\ LET f  == frames[p]
           sb == sig_block(f.call.signature_bytes, f.call.pdf_options)
       IN  IF sb.raised \/ constructor_raises(sb.blocks)
           THEN /\ heap' = heap
                /\ frames' = [frames EXCEPT ![p] = raised_frame(@)]
           ELSE /\ heap' = [heap EXCEPT ![f.elems].items =
                               @ \o elems_tail(sb.blocks)]
                /\ frames' = [frames EXCEPT ![p].pc = "build"]
    /\ UNCHANGED <<coreVars, appVars, session_signature, call_log, last_set,
                   fsVars, libVars>>

\* a doc.build(elems) inside a try whose handler passes: the call goes on
\* to read the buffer
DocBuild_swallowing(p) ==
    /\ frames[p].pc = "build"
    /\ LET f     == frames[p]
           d     == heap[f.doc]
           items == heap[f.elems].items
       IN  heap' = [heap EXCEPT ![d.buf].content =
                       IF doc_build_raises(d.template, items)
                       THEN <<[doc   |-> d.template,
                               elems |-> SubSeq(items, 1, Len(items) - 1)]>>
                       ELSE <<[doc |-> d.template, elems |-> items]>>]
    /\ frames' = [frames EXCEPT ![p].pc = "read"]
    /\ UNCHANGED <<coreVars, appVars, session_signature, call_log, last_set,
                   fsVars, libVars>>

\* doc.build(elems): writes the document into the template's buffer, or
\* raises
DocBuild(p) ==
    /\ frames[p].pc = "build"
    /\ LET f     == frames[p]
           d     == heap[f.doc]
           items == heap[f.elems].items
       IN  IF doc_build_raises(d.template, items)
           THEN /\ \E written \in partial_output(d.template, items) :
                       heap' = [heap EXCEPT ![d.buf].content = written]
                /\ frames' = [frames EXCEPT ![p] = raised_frame(@)]
           ELSE /\ heap' = [heap EXCEPT ![d.buf].content =
                               <<[doc |-> d.template, elems |-> items]>>]
                /\ frames' = [frames EXCEPT ![p].pc = "read"]
    /\ UNCHANGED <<coreVars, appVars, session_signature, call_log, last_set,
                   fsVars, libVars>>

\* buf.seek(0); return buf.read()
ReturnBytes(p) ==
    /\ frames[p].pc = "read"
    /\ LET written == heap[frames[p].buf].content[1]
       IN  frames' = [frames EXCEPT ![p].pc = "returned",
                         ![p].result = Built(FALSE, written.doc, written.elems)]
    /\ heap' = heap
    /\ UNCHANGED <<coreVars, appVars, session_signature, call_log, last_set,
                   fsVars, libVars>>

\* one statement group of one of the calls in progress
NextConc ==
    \E p \in Callers :
        \/ NewTemplate(p)
        \/ NewStyles(p)
        \/ NewElems(p)
        \/ NewTableStyle(p)
        \/ AddTables(p)
        \/ AddSignature(p)
        \/ DocBuild(p)
        \/ ReturnBytes(p)

(***************************************************************************)
(* Specification of one call of either copy of the core, statement by      *)
(* statement, with every engine of Engines: one that accepts the call's    *)
(* texts and lays out its document, and ones that do not.                  *)
(***************************************************************************)
InitEngine ==
    /\ CoreIdle
    /\ AppStart(SchemaMissing, EmptyDict)
    /\ call_log = <<>>
    /\ last_set = NoSignature
    /\ heap = <<>>
    /\ FsIdle
    /\ \E c \in InputsEngine :
          /\ frames = [p \in Callers |->
                          IF p = "a" THEN Frame(c) ELSE IdleFrame]
          /\ engine \in Engines(c)

SpecEngine == InitEngine /\ [][NextConc]_vars

(***************************************************************************)
(* The requests of the specifications below and their engine, which        *)
(* rejects one of the city lines and fails on one of the documents.        *)
(***************************************************************************)
RejectedCity == [SampleData EXCEPT !["stadt"] = "<b>Berlin"]

FailingBuild ==
    Call("app", SampleData, ImageBytes(400, 120), i18n_de,
         ("topMargin" :> 900))

\* with and without fields and signature, one whose document the engine
\* fails on and one whose city the paragraph parser rejects
ConcInputs ==
    {Call("app", SampleData, NoSignature, i18n_de, EmptyDict),
     Call("app", EmptyDict, ImageBytes(400, 120), i18n_de, EmptyDict),
     FailingBuild,
     Call("app", RejectedCity, NoSignature, i18n_de, EmptyDict)}

EngineFailing ==
    [rejects |-> {city_date_line(RejectedCity).text},
     fails   |-> {build_of(FailingBuild)}]

(***************************************************************************)
(* Specification of a process that calls the core several times, one call  *)
(* after the other, on one heap: the objects of the earlier calls are      *)
(* still there when a call begins, and the session's signature changes     *)
(* between the calls.                                                      *)
(***************************************************************************)
\* the calls of ConcInputs, and one of the other copy
CallInputs ==
    ConcInputs
    \cup {Call("module", SampleData, NoSignature, i18n_de, EmptyDict)}

\* def set_signature(signature)
set_signature(signature) ==
    /\ signature # session_signature
    /\ session_signature' = signature
    /\ UNCHANGED <<coreVars, appVars, call_log, last_set, otherVars>>

\* the process puts another signature into the session while no call runs
SetBetweenCalls(signature) ==
    /\ frames["a"].pc = "idle"
    /\ set_signature(signature)

\* the caller begins a call; the log keeps the heap and the session's
\* signature of that moment
CallCore(c) ==
    /\ frames["a"].pc = "idle"
    /\ Len(call_log) < MaxCalls
    /\ frames' = [frames EXCEPT !["a"] = Frame(c)]
    /\ call_log' =
          Append(call_log,
                 [call    |-> c,
                  session |-> session_signature,
                  before  |-> heap,
                  ended   |-> FALSE,
                  result  |-> NoResult,
                  after   |-> <<>>,
                  session_after |-> NoSignature])
    /\ UNCHANGED <<coreVars, appVars, session_signature, last_set, heap,
                   fsVars, libVars>>

\* the call has returned or raised: the caller has its result, and the log
\* keeps the heap and the session's signature the call leaves behind
CallEnds ==
    /\ frames["a"].pc \in {"returned", "raised"}
    /\ call_log' =
          [call_log EXCEPT ![Len(call_log)] =
              [@ EXCEPT !.ended = TRUE,
                        !.result = frames["a"].result,
                        !.after = heap,
                        !.session_after = session_signature]]
    /\ frames' = [frames EXCEPT !["a"].pc = "idle"]
    /\ UNCHANGED <<coreVars, appVars, session_signature, last_set, heap,
                   fsVars, libVars>>

InitCalls ==
    /\ CoreIdle
    /\ AppStart(SchemaMissing, EmptyDict)
    /\ call_log = <<>>
    /\ last_set = NoSignature
    /\ heap = <<>>
    /\ frames = [p \in Callers |-> IdleFrame]
    /\ FsIdle
    /\ engine = EngineFailing

NextCalls ==
    \/ \E s \in {NoSignature, ImageBytes(400, 120)} : SetBetweenCalls(s)
    \/ \E c \in CallInputs : CallCore(c)
    \/ CallEnds
    \/ NextConc

SpecCalls == InitCalls /\ [][NextCalls]_vars

(***************************************************************************)
(* Specification of two calls of build_vollmacht_pdf_bytes (app.py) whose  *)
(* statements interleave on one heap.                                      *)
(***************************************************************************)
InitConc ==
    /\ CoreIdle
    /\ AppStart(SchemaMissing, EmptyDict)
    /\ call_log = <<>>
    /\ last_set = NoSignature
    /\ heap = <<>>
    /\ frames \in [Callers -> {Frame(c) : c \in ConcInputs}]
    /\ FsIdle
    /\ engine = EngineFailing

SpecConc == InitConc /\ [][NextConc]_vars

(***************************************************************************)
(* Specification of pro_venv.py's workflow file: calls of                  *)
(* ensure_gh_actions_workflow and runs of the script with --ci.            *)
(***************************************************************************)
\* A file's bytes are a sequence of pieces: a run of ASCII text without a
\* line end, a line end ("\n", "\r\n" or "\r"), or one byte that is no UTF-8.
\* A text is such a sequence after decoding.
InvalidUtf8 == {"0xE9"}

\* bytes.decode("utf-8"): whether it raises UnicodeDecodeError
decode_raises(content) ==
    \E i \in 1..Len(content) : content[i] \in InvalidUtf8

\* reading in text mode with newline=None: "\r\n" and "\r" are handed out
\* as "\n"
universal_newlines(content) ==
    [i \in 1..Len(content) |->
        IF content[i] \in {"\r\n", "\r"} THEN "\n" ELSE content[i]]

\* Path.read_text(encoding="utf-8") of a file with these bytes
read_text(content) ==
    IF decode_raises(content)
    THEN [raised |-> TRUE, text |-> <<>>]
    ELSE [raised |-> FALSE, text |-> universal_newlines(content)]

\* Path.write_text(text, encoding="utf-8"): the bytes the file holds then,
\* on a system whose line separator is "\n" (the runner of the workflow)
write_text(text) == text

\* the workflow text for a Python version
yml(py) == <<"python-version: " \o py, "\n">>

\* def ensure_gh_actions_workflow(path, *, py, force, backup) -> str
\* on the files [wf, bak]: whether an exception left the call, the status
\* returned and the files left
ensure_gh_actions_workflow(files, py, force, backup) ==
    IF files.wf # None /\ ~force
    THEN [raised |-> FALSE, status |-> "exists", files |-> files]
    ELSE IF files.wf # None /\ backup /\ read_text(files.wf[1]).raised
    THEN [raised |-> TRUE, status |-> "", files |-> files]
    ELSE LET backed == IF files.wf # None /\ backup
                       THEN [files EXCEPT !.bak =
                                <<write_text(read_text(files.wf[1]).text)>>]
                       ELSE files
         IN  [raised |-> FALSE,
              status |-> IF force THEN "overwritten" ELSE "created",
              files  |-> [backed EXCEPT !.wf = <<write_text(yml(py))>>]]

\* --ci-python values
PyVersions == {"3.12", "3.11"}

\* what the two files hold before the first call: nothing, or text written by
\* hand (with "\n" or with "\r\n" line ends, or in Latin-1) or by an earlier
\* run
FileContents ==
    {None,
     << <<"name: custom", "\n">> >>,
     << <<"name: custom", "\r\n", "on: push", "\r\n">> >>,
     << <<"name: caf", "0xE9", "\n">> >>,
     << yml("3.10") >>}

\* one call on the files of the disk; printed is the status line of __main__
CiCall(py, force, backup, main) ==
    /\ LET r == ensure_gh_actions_workflow(disk, py, force, backup)
       IN  /\ disk' = r.files
           /\ ci' = [called |-> TRUE, py |-> py, force |-> force,
                     backup |-> backup, before |-> disk, raised |-> r.raised,
                     status |-> r.status,
                     printed |-> IF main /\ ~r.raised
                                 THEN <<"[ci] " \o r.status>> ELSE None]
    /\ UNCHANGED <<coreVars, appVars, session_signature, call_log, last_set,
                   concVars, libVars>>

\* a call by a program that imports pro_venv
EnsureWorkflow(py, force, backup) ==
    /\ CiCall(py, force, backup, FALSE)

\* python pro_venv.py --ci create|force --ci-python py: an exception of the
\* call ends the script before the status line
MainCi(choice, py) ==
    /\ choice \in {"create", "force"}
    /\ CiCall(py, choice = "force", TRUE, TRUE)

InitCi ==
    /\ CoreIdle
    /\ AppStart(SchemaMissing, EmptyDict)
    /\ call_log = <<>>
    /\ last_set = NoSignature
    /\ ConcIdle
    /\ engine = EngineWorks
    /\ disk \in [wf : FileContents, bak : FileContents]
    /\ ci = NoCiCall

NextCi ==
    \/ \E py \in PyVersions, force \in BOOLEAN, backup \in BOOLEAN :
          EnsureWorkflow(py, force, backup)
    \/ \E choice \in {"create", "force"}, py \in PyVersions : MainCi(choice, py)

SpecCi == InitCi /\ [][NextCi]_vars

(***************************************************************************)
(* Reading a finished call of the core.                                    *)
(***************************************************************************)
BuildDone == pc = "done" /\ call.variant \in Variants

TrDone == pc = "done" /\ tr_call.variant \in Variants

IsImage(b) == b.type = "Image"

IsTable(b) == b.type = "Table"

IsGroup(b) == b.type = "KeepTogether"

\* the value the call was given for an option, or the documented default
OptionOr(name, default) ==
    IF name \in DOMAIN call.pdf_options THEN call.pdf_options[name] ELSE default

\* the value the call was given for a FormData key, or the empty string
FieldOr(key) == IF key \in DOMAIN call.data THEN call.data[key] ELSE ""

Groups == SelectSeq(result.elems, IsGroup)

Tables == SelectSeq(result.elems, IsTable)

\* the image blocks of the result, at the top level and inside groups
TopImages == SelectSeq(result.elems, IsImage)

GroupImages ==
    {<<g, i>> \in (1..Len(Groups)) \X (1..4) :
        i <= Len(Groups[g].blocks) /\ IsImage(Groups[g].blocks[i])}

PurposeTexts ==
    {"den Aufenthaltstitel und Reiseausweis zu beantragen/abzuholen, unter Vorlage <u>meines</u> Personaldokuments (Pass/Reiseausweises).",
     "den Aufenthaltstitel und Reiseausweis zu beantragen/abzuholen, unter Vorlage <u>meines</u> Personaldokuments."}

(***************************************************************************)
(* C1: for a decodable signature image of w x h pixels, w > 0, the result  *)
(* holds exactly one image block; its width is target_width and its height *)
(* is min(max_height, target_width * h / w).                               *)
(***************************************************************************)
C1_AspectRatioLaw ==
    (BuildDone /\ call.signature_bytes.kind = "image" /\ call.signature_bytes.w > 0)
    =>
    LET w  == call.signature_bytes.w
        h  == call.signature_bytes.h
        tw == OptionOr("signature_width_pt", 180)
        mh == OptionOr("signature_max_height_pt", 80)
    IN  /\ ~result.raised
        /\ Len(TopImages) = 0
        /\ Len(Groups) = 1
        /\ GroupImages = {<<1, 1>>}
        /\ LET img == Groups[1].blocks[1]
           IN  /\ img.width[2] > 0 /\ img.height[2] > 0
               /\ img.width[1] = tw * img.width[2]
               /\ IF tw * h <= mh * w
                  THEN img.height[1] * w = tw * h * img.height[2]
                  ELSE img.height[1] = mh * img.height[2]

\* a 400x120 image under the default options comes out 180 wide, 54 high
C1_Witness ==
    /\ BuildDone
    /\ call.signature_bytes = ImageBytes(400, 120)
    /\ call.pdf_options = EmptyDict
    /\ Len(Groups) = 1
    /\ Groups[1].blocks[1].type = "Image"
    /\ Groups[1].blocks[1].width = <<180, 1>>
    /\ Groups[1].blocks[1].height = <<54, 1>>

(***************************************************************************)
(* C2: with signature bytes that do not decode, the call raises nothing    *)
(* and returns what it returns for signature_bytes = None.                 *)
(***************************************************************************)
C2_UndecodableLikeNone ==
    (BuildDone /\ call.signature_bytes.kind \in {"garbage", "truncated"})
    =>
    /\ ~result.raised
    /\ result = BuildOf(call.variant, call.data, NoSignature, call.i18n,
                        call.pdf_options)

C2_Witness ==
    /\ BuildDone
    /\ call.signature_bytes = TruncatedBytes
    /\ ~result.raised
    /\ Len(result.elems) = 19
    /\ Len(Groups) = 1
    /\ Len(Groups[1].blocks) = 2

(***************************************************************************)
(* C3 as stated: tr returns table[key] when key is in table; otherwise the *)
(* fallback whenever one was given, the empty string included; key itself  *)
(* only when no fallback was given.                                        *)
(***************************************************************************)
C3_Original ==
    TrDone =>
    LET k == tr_call.key
        t == tr_call.i18n
        f == tr_call.fallback
    IN  tr_result = << IF k \in DOMAIN t THEN t[k]
                       ELSE IF f # None THEN f[1] ELSE k >>

(***************************************************************************)
(* C3 amended: tr returns table[key] when key is in table; otherwise the   *)
(* fallback when a non-empty fallback was given; otherwise (no fallback,   *)
(* or the empty string as fallback) key itself.                            *)
(***************************************************************************)
C3_TrFallback ==
    TrDone =>
    LET k == tr_call.key
        t == tr_call.i18n
        f == tr_call.fallback
    IN  tr_result = << IF k \in DOMAIN t THEN t[k]
                       ELSE IF f # None /\ f[1] # "" THEN f[1] ELSE k >>

\* an empty fallback for a missing key came back as the key
C3_Witness ==
    /\ TrDone
    /\ tr_call.key = "nonexistent.key"
    /\ tr_call.key \notin DOMAIN tr_call.i18n
    /\ tr_call.fallback = <<"">>
    /\ tr_result = <<"nonexistent.key">>

(***************************************************************************)
(* C4: the block sequence holds, in this order, the title, the             *)
(* introductory paragraph, the grantor table, the connector paragraph, the *)
(* grantee table, the two informational paragraphs, the city+date line and *)
(* the signature area, after which no content block follows; the rows of   *)
(* the two tables carry the values of vg_* and b_*, and the city+date line *)
(* reads "<stadt>, den <datum>".                                           *)
(***************************************************************************)
RowsOf(prefix) ==
    << <<"Name:",         FieldOr(prefix \o "_name")>>,
       <<"Vorname:",      FieldOr(prefix \o "_vorname")>>,
       <<"Geburtsdatum:", FieldOr(prefix \o "_geb")>>,
       <<"Anschrift:",    FieldOr(prefix \o "_addr")>> >>

IsTableOf(b, prefix) == b.type = "Table" /\ b.rows = RowsOf(prefix)

IsText(b, text) == b.type = "Paragraph" /\ b.text = text

C4_BlockOrder ==
    BuildDone =>
    LET E == result.elems
        N == Len(E)
    IN  /\ ~result.raised
        /\ \E t \in 1..N :
            /\ E[t].type = "Paragraph" /\ E[t].style = "Title"
            /\ \E p \in (t+1)..N :
                /\ IsText(E[p], IntroText)
                /\ \E g \in (p+1)..N :
                    /\ IsTableOf(E[g], "vg")
                    /\ \E c \in (g+1)..N :
                        /\ IsText(E[c], "bevollmächtige")
                        /\ \E b \in (c+1)..N :
                            /\ IsTableOf(E[b], "b")
                            /\ \E q \in (b+1)..N :
                                /\ E[q].type = "Paragraph"
                                /\ E[q].text \in PurposeTexts
                                /\ \E n \in (q+1)..N :
                                    /\ IsText(E[n], HinweisText)
                                    /\ \E d \in (n+1)..N :
                                        /\ IsText(E[d], FieldOr("stadt") \o ", den "
                                                        \o FieldOr("datum"))
                                        /\ \E a \in (d+1)..N :
                                            /\ E[a].type = "KeepTogether"
                                            /\ \A x \in (a+1)..N :
                                                E[x].type = "Indenter"
        /\ Len(Tables) = 2
        /\ Len(Groups) = 1

\* the end-to-end scenario of the full FormData
C4_Witness ==
    /\ BuildDone
    /\ call.data = SampleData
    /\ Len(result.elems) = 19
    /\ result.elems[6].type = "Table"
    /\ result.elems[6].rows[1] = <<"Name:", "Müller">>
    /\ result.elems[10].rows[2] = <<"Vorname:", "Jan">>
    /\ result.elems[15].text = "Berlin, den 15.03.2024"
    /\ result.elems[18].type = "KeepTogether"

(***************************************************************************)
(* C5 as stated: with a decodable signature the signature area is a single *)
(* keep-together group whose members are the image, then immediately the   *)
(* rule line, then the caption; no image lies outside the group.           *)
(***************************************************************************)
C5_Original ==
    (BuildDone /\ call.signature_bytes.kind = "image")
    =>
    /\ Len(Groups) = 1
    /\ Len(TopImages) = 0
    /\ Len(Groups[1].blocks) = 3
    /\ Groups[1].blocks[1].type = "Image"
    /\ Groups[1].blocks[2] = Paragraph("_________________________", "Normal")
    /\ Groups[1].blocks[3] = Paragraph("Unterschrift des Vollmachtgebers", "Normal")

(***************************************************************************)
(* C5 amended: with a decodable signature the signature area is a single   *)
(* keep-together group whose members are, in order, the image, a spacer of *)
(* height -12 (the only block between image and rule line), the rule line  *)
(* and the caption; no image lies outside the group.                       *)
(***************************************************************************)
C5_SignatureGroup ==
    (BuildDone /\ call.signature_bytes.kind = "image")
    =>
    /\ Len(Groups) = 1
    /\ Len(TopImages) = 0
    /\ Len(Groups[1].blocks) = 4
    /\ Groups[1].blocks[1].type = "Image"
    /\ Groups[1].blocks[1].src = call.signature_bytes
    /\ Groups[1].blocks[2].type = "Spacer"
    /\ Groups[1].blocks[2].height = -12
    /\ Groups[1].blocks[3] = Paragraph("_________________________", "Normal")
    /\ Groups[1].blocks[4] = Paragraph("Unterschrift des Vollmachtgebers", "Normal")

C5_Witness ==
    /\ BuildDone
    /\ call.signature_bytes = ImageBytes(120, 400)
    /\ Len(Groups) = 1
    /\ Groups[1].blocks[1].type = "Image"
    /\ Groups[1].blocks[2] = Spacer(1, -12)
    /\ Groups[1].blocks[3].type = "Paragraph"

(***************************************************************************)
(* C6: with signature_bytes None or empty no image block is emitted, and   *)
(* the signature area is exactly the rule line followed by the caption.    *)
(***************************************************************************)
C6_NoSignature ==
    (BuildDone /\ call.signature_bytes.kind \in {"none", "empty"})
    =>
    /\ ~result.raised
    /\ Len(TopImages) = 0
    /\ GroupImages = {}
    /\ Len(Groups) = 1
    /\ Groups[1].blocks =
           << Paragraph("_________________________", "Normal"),
              Paragraph("Unterschrift des Vollmachtgebers", "Normal") >>

C6_Witness ==
    /\ BuildDone
    /\ call.signature_bytes = EmptyBytes
    /\ Len(Groups) = 1
    /\ Len(Groups[1].blocks) = 2
    /\ Groups[1].blocks[1].text = "_________________________"

(***************************************************************************)
(* C7: whatever subset of the ten FormData keys is absent, the call does   *)
(* not fail; an absent key is rendered as the empty string and a present   *)
(* key with its own value.                                                 *)
(***************************************************************************)
PersonKeys == <<"_name", "_vorname", "_geb", "_addr">>

C7_AbsentKeys ==
    BuildDone =>
    /\ ~result.raised
    /\ Len(Tables) = 2
    /\ \A i \in 1..4 :
        /\ Tables[1].rows[i][2] =
              (IF ("vg" \o PersonKeys[i]) \in DOMAIN call.data
               THEN call.data["vg" \o PersonKeys[i]] ELSE "")
        /\ Tables[2].rows[i][2] =
              (IF ("b" \o PersonKeys[i]) \in DOMAIN call.data
               THEN call.data["b" \o PersonKeys[i]] ELSE "")
    /\ result.elems[15].type = "Paragraph"
    /\ result.elems[15].text =
          (IF "stadt" \in DOMAIN call.data THEN call.data["stadt"] ELSE "")
          \o ", den "
          \o (IF "datum" \in DOMAIN call.data THEN call.data["datum"] ELSE "")

\* only vg_name, b_addr and datum are present
C7_Witness ==
    /\ BuildDone
    /\ DOMAIN call.data = {"vg_name", "b_addr", "datum"}
    /\ ~result.raised
    /\ Tables[1].rows[1][2] = "Müller"
    /\ Tables[1].rows[2][2] = ""
    /\ Tables[2].rows[4][2] = "Beispielweg 2, Berlin"
    /\ result.elems[15].text = ", den 15.03.2024"

(***************************************************************************)
(* C8: each recognized option takes the supplied value when its key is     *)
(* present and its default otherwise (margins 40/40/36/36, signature width *)
(* 180, signature maximum height 80, title key "app.title" resolving to    *)
(* "Vollmacht" when untranslated); a key the builder does not recognize    *)
(* changes neither the block sequence nor the margins.                     *)
(***************************************************************************)
C8_OptionDefaults ==
    BuildDone =>
    LET o  == call.pdf_options
        tk == IF "title_i18n" \in DOMAIN o THEN o["title_i18n"] ELSE "app.title"
        tw == IF "signature_width_pt" \in DOMAIN o
              THEN o["signature_width_pt"] ELSE 180
        mh == IF "signature_max_height_pt" \in DOMAIN o
              THEN o["signature_max_height_pt"] ELSE 80
    IN  /\ ~result.raised
        /\ result.doc[1].leftMargin =
              (IF "leftMargin" \in DOMAIN o THEN o["leftMargin"] ELSE 40)
        /\ result.doc[1].rightMargin =
              (IF "rightMargin" \in DOMAIN o THEN o["rightMargin"] ELSE 40)
        /\ result.doc[1].topMargin =
              (IF "topMargin" \in DOMAIN o THEN o["topMargin"] ELSE 36)
        /\ result.doc[1].bottomMargin =
              (IF "bottomMargin" \in DOMAIN o THEN o["bottomMargin"] ELSE 36)
        /\ result.elems[1].text =
              "<b>" \o (IF tk \in DOMAIN call.i18n THEN call.i18n[tk]
                        ELSE "Vollmacht") \o "</b>"
        /\ call.signature_bytes.kind = "image" =>
              /\ Groups[1].blocks[1].width = <<tw, 1>>
              /\ \/ Groups[1].blocks[1].height = <<mh, 1>>
                 \/ Groups[1].blocks[1].height[1] * call.signature_bytes.w
                        = tw * call.signature_bytes.h
                          * Groups[1].blocks[1].height[2]
              /\ Groups[1].blocks[1].height[1]
                    <= mh * Groups[1].blocks[1].height[2]
        /\ result = BuildOf(call.variant, call.data, call.signature_bytes,
                            call.i18n,
                            [k \in DOMAIN o \cap RecognizedOptions |-> o[k]])

\* an unrecognized key beside a supplied top margin and a defaulted left one
C8_Witness ==
    /\ BuildDone
    /\ "page_numbers" \in DOMAIN call.pdf_options
    /\ "topMargin" \in DOMAIN call.pdf_options
    /\ "leftMargin" \notin DOMAIN call.pdf_options
    /\ "title_i18n" \notin DOMAIN call.pdf_options
    /\ result.doc[1].topMargin = 72
    /\ result.doc[1].leftMargin = 40

(***************************************************************************)
(* C9 as stated: the builder is invoked, and a download offered, only when *)
(* all ten FormData values are non-empty after trimming; a submit with an  *)
(* empty one shows the validation error instead.                           *)
(***************************************************************************)
C9_ValidatedBeforeBuild ==
    (built # None \/ download # None)
    =>
    /\ \A k \in FormKeys : built[1].data[k] # ""
    /\ \A k \in DOMAIN values : strip(values[k]) # <<>>
    /\ strip(stadt) # <<>>
    /\ strip(datum) # <<>>
    /\ st_error = None

(***************************************************************************)
(* C10: the core keeps no state.  In a process that calls it up to         *)
(* MaxCalls times on one heap, in any order of requests and with the       *)
(* session's signature changing between the calls: two calls with the      *)
(* same arguments have the same result; every call has the result a call   *)
(* with its arguments gives as the first one; every object that was on the *)
(* heap when a call began, and the session's signature, are what they were *)
(* when the call has ended; and every reference a call holds is to an      *)
(* object the call created itself.  The engine is held to answer the same  *)
(* arguments the same way.                                                 *)
(***************************************************************************)
FrameRefs(f) == {f.buf, f.doc, f.styles, f.table_style, f.elems} \ {0}

C10_Stateless ==
    /\ \A i \in 1..Len(call_log) : \A j \in 1..Len(call_log) :
          /\ call_log[i].ended
          /\ call_log[j].ended
          /\ call_log[i].call = call_log[j].call
          => call_log[i].result = call_log[j].result
    /\ \A i \in 1..Len(call_log) :
          call_log[i].ended =>
              /\ call_log[i].result =
                     BuildOf(call_log[i].call.variant, call_log[i].call.data,
                             call_log[i].call.signature_bytes,
                             call_log[i].call.i18n,
                             call_log[i].call.pdf_options)
              /\ SubSeq(call_log[i].after, 1, Len(call_log[i].before))
                     = call_log[i].before
              /\ call_log[i].session_after = call_log[i].session
    /\ call_log # <<>> =>
          /\ SubSeq(heap, 1, Len(call_log[Len(call_log)].before))
                 = call_log[Len(call_log)].before
          /\ \A r \in FrameRefs(frames["a"]) :
                 r > Len(call_log[Len(call_log)].before)

\* three calls: the first and the third with the same arguments and another
\* signature in the session; the call between them raised and left its
\* block list on the heap
C10_Witness ==
    /\ Len(call_log) = 3
    /\ call_log[3].ended
    /\ call_log[1].call = call_log[3].call
    /\ call_log[1].call.signature_bytes = NoSignature
    /\ call_log[1].call.variant = "app"
    /\ call_log[1].session # call_log[3].session
    /\ call_log[2].result.raised
    /\ \E r \in 1..Len(call_log[3].before) :
          /\ call_log[3].before[r].type = "list"
          /\ Len(call_log[3].before[r].items) = 14
    /\ call_log[1].result = call_log[3].result
    /\ Len(call_log[3].result.elems) = 19

(* only, also when a statement of the call has raised; and each call that  *)
(* has ended has the result the same arguments give a call that runs       *)
(* alone.  The engine is held to keep no state between its calls, which    *)
(* is the condition the specification itself puts on the library.          *)
(***************************************************************************)
C12_Locals(p) == FrameRefs(frames[p])

C12_Alone(c) ==
    build_vollmacht_pdf_bytes(c.data, c.signature_bytes, c.i18n, c.pdf_options)

\* whether the blocks are the first blocks of the call's own document
C12_Own(blocks, c) == blocks = SubSeq(elems_of(c), 1, Len(blocks))

C12_Isolated ==
    /\ \A p \in Callers : \A q \in Callers \ {p} :
          C12_Locals(p) \cap C12_Locals(q) = {}
    /\ \A p \in Callers :
          frames[p].elems # 0 =>
              C12_Own(heap[frames[p].elems].items, frames[p].call)
    /\ \A p \in Callers :
          frames[p].buf # 0 =>
              \/ heap[frames[p].buf].content = None
              \/ /\ heap[frames[p].buf].content[1].doc
                        = SimpleDocTemplate(frames[p].call.pdf_options)
                 /\ C12_Own(heap[frames[p].buf].content[1].elems,
                            frames[p].call)
    /\ \A p \in Callers :
          frames[p].pc \in {"returned", "raised"} =>
              frames[p].result = C12_Alone(frames[p].call)

\* a call raised at its city line with the fourteen blocks before it in its
\* list, the other returned its document, and each began before the other
\* had its block list and ended after the other had added to its own
C12_Witness ==
    /\ frames["a"].pc = "raised"
    /\ Len(heap[frames["a"].elems].items) = 14
    /\ frames["b"].pc = "returned"
    /\ Len(frames["b"].result.elems) = 19
    /\ frames["a"].buf < frames["b"].buf
    /\ frames["b"].elems < frames["a"].elems
    /\ frames["a"].table_style < frames["b"].table_style

(***************************************************************************)
(* C13: whenever a run of the script calls the builder, the signature it   *)
(* passes is what the user's last accept, upload or Clear gave: the bytes  *)
(* accepted or uploaded, or no signature after Clear (bytes of length 0    *)
(* count as no signature), whatever runs lay in between.                   *)
(***************************************************************************)
C13_SameSignature(a, b) == a = b \/ (~Truthy(a) /\ ~Truthy(b))

C13_LastActionWins ==
    built # None => C13_SameSignature(built[1].signature_bytes, last_set)

(***************************************************************************)
(* C14: a call of ensure_gh_actions_workflow returns one of the three      *)
(* statuses, and after it: if the workflow file                            *)
(* existed and force was false the status is "exists" and both files are   *)
(* as before; if the file did not exist the status is "created" and the    *)
(* file holds the workflow text; the status is "overwritten" only if the   *)
(* file existed and was replaced, and then with backup the .bak file holds *)
(* the content the workflow file had before.                               *)
(***************************************************************************)
C14_ReportsWhatItDid ==
    ci.called =>
    /\ ci.status \in {"exists", "created", "overwritten"}
    /\ (ci.before.wf # None /\ ~ci.force) =>
          (ci.status = "exists" /\ disk = ci.before)
    /\ ci.before.wf = None =>
          (ci.status = "created" /\ disk.wf = <<yml(ci.py)>>)
    /\ ci.status = "overwritten" =>
          /\ ci.before.wf # None
          /\ disk.wf = <<yml(ci.py)>>
          /\ ci.backup => disk.bak = ci.before.wf

(***************************************************************************)
(* C15: the result of a call of one copy of the core (app.py or            *)
(* modules/pdf_builder.py) is the result the other copy gives for the same *)
(* data, signature bytes, translation table and options: the same          *)
(* template and the same sequence of blocks with the same text, tables     *)
(* and image dimensions.                                                   *)
(***************************************************************************)
C15_OtherCopy == IF call.variant = "app" THEN "module" ELSE "app"

C15_CopiesAgree ==
    BuildDone =>
        result = BuildOf(C15_OtherCopy, call.data, call.signature_bytes,
                         call.i18n, call.pdf_options)

(***************************************************************************)
(* C16: what a run of the script hands to the builder is determined by     *)
(* the entered values, the session signature and the configuration alone:  *)
(* the German table, the stripped values, the session signature and the    *)
(* configured options, whatever language is chosen; whether the run calls  *)
(* the builder or shows an error is the same under every language; and     *)
(* the document offered is the one the builder gives for these arguments.  *)
(***************************************************************************)
C16_Args ==
    Call("app", form_data(values, stadt, datum), session_signature, i18n_de,
         Get(cfg, "pdf_options", EmptyDict))

C16_LanguageIndependent ==
    /\ built # None =>
          /\ built[1] = C16_Args
          /\ \A l \in DOMAIN LANGS :
                validate_required(values, schema, LANGS[l]) = <<>>
          /\ download # None
          /\ download[1] = build_vollmacht_pdf_bytes(
                               C16_Args.data, C16_Args.signature_bytes,
                               i18n_de, C16_Args.pdf_options)
    /\ st_error # None =>
          \A l \in DOMAIN LANGS :
              validate_required(values, schema, LANGS[l]) # <<>>

\* a document was built with a signature while the language chosen was one
\* whose table resolves the title differently from the German table
C16_Witness ==
    /\ built # None
    /\ download # None
    /\ lang_choice = "English"
    /\ Truthy(session_signature)
    /\ "title_i18n" \in DOMAIN built[1].pdf_options

=============================================================================
